  /\ \/ \E hits \in Rankings(IndexedChunks, MaxCandidates), t \in 0..MaxThreshold :
          /\ config = [Config EXCEPT !.threshold = t]
          /\ retr = [kind |-> "needle", candidates |-> Scored(hits),
                     overview |-> {}, validated |-> "none",
                     status |-> "ready", evidence |-> <<>>]
     \/ \E ranking \in Rankings(SummaryPages, MaxRanked),
           overview \in SUBSET SummaryPages, k \in 1..MaxTopK :
          /\ config = [Config EXCEPT !.summary_top_k = k]
          /\ retr = [kind |-> "summary", candidates |-> Scored(ranking),
                     overview |-> overview, validated |-> "none",
                     status |-> "ready", evidence |-> <<>>]

---- MODULE Spec2Model ----
(***************************************************************************)
(* Needle indexing of the insurance-claim document:                        *)
(*   - create_needle_chunks  (src/Indexing/needle_indexing.py:57-159)       *)
(*   - store_in_supabase     (src/Indexing/needle_indexing.py:245-322)      *)
(*   - store_via_postgres    (src/Indexing/needle_indexing.py:162-242)      *)
(*   - create_needle_index   (src/Indexing/needle_indexing.py:325-408)      *)
(* Text is a sequence of one-character strings, so that the Python string   *)
(* operations the chunker uses (split, strip, replace, find, rfind,         *)
(* slicing) are modelled character by character.                            *)
(***************************************************************************)
EXTENDS Integers, Sequences, FiniteSets, TLC

(***************************************************************************)
(* Bounds of the model and program constants.                               *)
(* CHUNK_SIZE and CHUNK_OVERLAP are config.py's constants scaled down       *)
(* (300 -> 3, 40 -> 2): the chunker only ever compares lengths with them    *)
(* and slices by them, so the scaled values reach the same branches on      *)
(* texts that TLC can enumerate.                                            *)
(***************************************************************************)
CHUNK_SIZE == 3
CHUNK_OVERLAP == 2

MaxTextLen == 7

\* The characters page texts are made of: a letter, the space, the period,
\* the newline and the pipe.
Chars == {"a", " ", ".", "\n", "|"}

RECURSIVE StringsUpTo(_)
StringsUpTo(n) ==
  IF n = 0 THEN {<<>>}
  ELSE LET shorter == StringsUpTo(n - 1)
       IN shorter \cup {Append(s, c) : s \in {t \in shorter : Len(t) = n - 1}, c \in Chars}

(***************************************************************************)
(* Python string operations.                                               *)
(***************************************************************************)
SetMin(S) == CHOOSE x \in S : \A y \in S : x <= y
SetMax(S) == CHOOSE x \in S : \A y \in S : x >= y

\* Characters str.strip() removes.
IsSpace(c) == c \in {" ", "\n"}

\* pat occurs in s at the 1-based position i
OccursAt(s, pat, i) ==
  /\ i >= 1
  /\ i + Len(pat) - 1 <= Len(s)
  /\ SubSeq(s, i, i + Len(pat) - 1) = pat

\* s.find(pat): the 0-based index of the first occurrence, -1 when there is none
Find(s, pat) ==
  LET hits == {i \in 1..Len(s) : OccursAt(s, pat, i)}
  IN IF hits = {} THEN -1 ELSE SetMin(hits) - 1

\* s.rfind(pat): the 0-based index of the last occurrence, -1 when there is none
RFind(s, pat) ==
  LET hits == {i \in 1..Len(s) : OccursAt(s, pat, i)}
  IN IF hits = {} THEN -1 ELSE SetMax(hits) - 1

\* s[k:] for k >= 0
SliceFrom(s, k) == SubSeq(s, k + 1, Len(s))

\* s[-n:] for n >= 0; Python reads s[-0:] as s[0:], the whole string
SliceLast(s, n) ==
  IF n = 0 \/ n >= Len(s) THEN s ELSE SubSeq(s, Len(s) - n + 1, Len(s))

\* s.strip()
Strip(s) ==
  LET keep == {i \in 1..Len(s) : ~IsSpace(s[i])}
  IN IF keep = {} THEN <<>> ELSE SubSeq(s, SetMin(keep), SetMax(keep))

\* s.split(sep): cut at the non-overlapping occurrences of sep, left to right
RECURSIVE Split(_, _)
Split(s, sep) ==
  LET k == Find(s, sep)
  IN IF k = -1 THEN <<s>>
     ELSE <<SubSeq(s, 1, k)>> \o Split(SliceFrom(s, k + Len(sep)), sep)

\* s.replace(old, new)
RECURSIVE Replace(_, _, _)
Replace(s, old, new) ==
  LET k == Find(s, old)
  IN IF k = -1 THEN s
     ELSE SubSeq(s, 1, k) \o new \o Replace(SliceFrom(s, k + Len(old)), old, new)


(***************************************************************************)
(* create_needle_chunks.                                                   *)
(* A page is [id_, text, metadata]; a chunk is a TextNode [id_, text,       *)
(* metadata] plus a field trace that records how the chunker built it (the  *)
(* paragraph it came from, the overlap seed its buffer started with, the    *)
(* buffer closed just before, the sentences appended to it). The code keeps *)
(* no such record; trace is read by the properties only.                    *)
(***************************************************************************)
SPACE == <<" ">>
PERIOD_SPACE == <<".", " ">>
PERIOD_PIPE == <<".", "|">>
PIPE == <<"|">>
PARA_BREAK == <<"\n", "\n">>

\* Mutant: the index counted from 1
NextChunkIndexFromOne(chunks) == Len(chunks) + 1

\* len(chunks), the index given to the next chunk of the page
NextChunkIndex(chunks) == Len(chunks)

\* Mutant: the page number written as the parent reference
ParentIdFromPageNumber(parent_doc) == ToString(parent_doc.metadata.page_number)

\* parent_doc.id_, the parent reference written on a chunk
ParentIdOf(parent_doc) == parent_doc.id_

\* Mutant: the chunk index left out of the id
ChunkIdWithoutIndex(parent_id, chunk_index) == parent_id \o "_chunk"

\* f"{parent_doc.id_}_chunk_{len(chunks)}"
ChunkIdOf(parent_id, chunk_index) == parent_id \o "_chunk_" \o ToString(chunk_index)

\* The buffer as it is, whitespace included
ClosedTextUnstripped(current_chunk) == current_chunk

\* The text of a chunk closed from the buffer of a split paragraph
ClosedText(current_chunk) == Strip(current_chunk)

\* TextNode(text=...) followed by the metadata assignments and node.id_
NewTextNode(parent_doc, text, chunks, trace) ==
  LET idx == NextChunkIndex(chunks)
      meta == [chunk_index |-> idx,
               parent_id |-> ParentIdOf(parent_doc),
               chunk_id |-> ChunkIdOf(parent_doc.id_, idx),
               chunk_size |-> Len(text)] @@ parent_doc.metadata
  IN [id_ |-> meta.chunk_id, text |-> text, metadata |-> meta, trace |-> trace]

\* A correction that stops at the word boundary
OverlapTextFromWord(current_chunk, overlap) ==
  LET overlap_text == SliceLast(current_chunk, overlap)
      first_space == Find(overlap_text, SPACE)
  IN IF first_space # -1 THEN SliceFrom(overlap_text, first_space + 1) ELSE overlap_text

\* The boundary correction of the overlap: past the first space, then past
\* the last ". "
OverlapText(current_chunk, overlap) ==
  LET overlap_text == SliceLast(current_chunk, overlap)
      first_space == Find(overlap_text, SPACE)
      from_word == IF first_space # -1
                   THEN SliceFrom(overlap_text, first_space + 1)
                   ELSE overlap_text
      last_period == RFind(from_word, PERIOD_SPACE)
  IN IF last_period # -1 THEN SliceFrom(from_word, last_period + 2) ELSE from_word

\* Whether the next buffer is seeded from the closed one
SeedsNext(current_chunk, overlap) == Len(current_chunk) > overlap

\* A test that forgets the separator
MustCloseWithoutSeparator(current_chunk, sent, size) ==
  current_chunk # <<>> /\ Len(current_chunk) + Len(sent) > size

\* The test that closes the buffer before sent is appended
MustClose(current_chunk, sent, size) ==
  current_chunk # <<>> /\ Len(current_chunk) + Len(sent) + 1 > size

\* Mutant: the next buffer never takes the overlap
StartNextWithoutOverlap(current_chunk, sent, overlap) == sent

\* The buffer after a close: the boundary-corrected overlap, a space and the
\* sentence, or the sentence alone when the closed buffer is no longer than
\* the overlap
StartNext(current_chunk, sent, overlap) ==
  IF SeedsNext(current_chunk, overlap)
  THEN OverlapText(current_chunk, overlap) \o SPACE \o sent
  ELSE sent

\* The record kept for the buffer of a split paragraph
NoTrace(para) ==
  [para |-> para, split |-> FALSE, seeded |-> FALSE, seed |-> <<>>,
   closed |-> <<>>, closed_text |-> <<>>, sents |-> <<>>]

\* `for sent in sentences`, from the k-th sentence on.
\* st = [chunks, current_chunk, trace]
RECURSIVE SentenceLoop(_, _, _, _, _)
SentenceLoop(parent_doc, sentences, k, st, cfg) ==
  IF k > Len(sentences) THEN st
  ELSE
    LET sent == Strip(sentences[k])
        current_chunk == st.current_chunk
    IN IF sent = <<>> THEN SentenceLoop(parent_doc, sentences, k + 1, st, cfg)
       ELSE IF MustClose(current_chunk, sent, cfg.size)
       THEN
         LET node == NewTextNode(parent_doc, ClosedText(current_chunk), st.chunks, st.trace)
             seeded == SeedsNext(current_chunk, cfg.overlap)
             overlap_text == OverlapText(current_chunk, cfg.overlap)
             next_chunk == StartNext(current_chunk, sent, cfg.overlap)
             next_trace == [para |-> st.trace.para, split |-> TRUE,
                            seeded |-> seeded,
                            seed |-> IF seeded THEN overlap_text ELSE <<>>,
                            closed |-> current_chunk,
                            closed_text |-> node.text,
                            sents |-> <<sent>>]
         IN SentenceLoop(parent_doc, sentences, k + 1,
                         [chunks |-> Append(st.chunks, node),
                          current_chunk |-> next_chunk,
                          trace |-> next_trace], cfg)
       ELSE
         SentenceLoop(parent_doc, sentences, k + 1,
                      [chunks |-> st.chunks,
                       current_chunk |-> current_chunk
                                         \o (IF current_chunk # <<>> THEN SPACE ELSE <<>>)
                                         \o sent,
                       trace |-> [st.trace EXCEPT !.sents = Append(@, sent)]], cfg)

\* A paragraph taken as one sentence
SplitSentencesWhole(para) == <<para>>

\* para.replace('. ', '.|').split('|')
SplitSentences(para) == Split(Replace(para, PERIOD_SPACE, PERIOD_PIPE), PIPE)

\* `for para in paragraphs`, from the j-th paragraph on
RECURSIVE ParagraphLoop(_, _, _, _, _)
ParagraphLoop(parent_doc, paragraphs, j, chunks, cfg) ==
  IF j > Len(paragraphs) THEN chunks
  ELSE
    LET para == Strip(paragraphs[j])
    IN IF para = <<>> THEN ParagraphLoop(parent_doc, paragraphs, j + 1, chunks, cfg)
       ELSE IF Len(para) <= cfg.size
       THEN ParagraphLoop(parent_doc, paragraphs, j + 1,
                          Append(chunks, NewTextNode(parent_doc, para, chunks,
                                                     [NoTrace(j) EXCEPT !.sents = <<para>>])),
                          cfg)
       ELSE
         LET st == SentenceLoop(parent_doc, SplitSentences(para), 1,
                                [chunks |-> chunks, current_chunk |-> <<>>,
                                 trace |-> [NoTrace(j) EXCEPT !.split = TRUE]], cfg)
             done == IF Strip(st.current_chunk) # <<>>
                     THEN Append(st.chunks,
                                 NewTextNode(parent_doc, ClosedText(st.current_chunk),
                                             st.chunks, st.trace))
                     ELSE st.chunks
         IN ParagraphLoop(parent_doc, paragraphs, j + 1, done, cfg)

\* A page whose metadata dictionary is the one its last chunk writes to
PageSharingMetadata(parent_doc, chunks) ==
  IF chunks = <<>> THEN parent_doc
  ELSE [parent_doc EXCEPT !.metadata = chunks[Len(chunks)].metadata]

\* The page object once its chunks are made: every TextNode has a metadata
\* dictionary of its own, which update() fills from the page's; the page is
\* only read
PageAfterChunking(parent_doc, chunks) == parent_doc

\* The chunks of one page: the body of `for parent_doc in documents`
PageChunks(parent_doc, cfg) ==
  ParagraphLoop(parent_doc, Split(parent_doc.text, PARA_BREAK), 1, <<>>, cfg)

RECURSIVE ExtendAll(_, _, _)
ExtendAll(documents, d, cfg) ==
  IF d > Len(documents) THEN <<>>
  ELSE PageChunks(documents[d], cfg) \o ExtendAll(documents, d + 1, cfg)

\* create_needle_chunks(documents) -> (parent_nodes, child_nodes)
create_needle_chunks(documents, cfg) ==
  LET pages == [d \in 1..Len(documents) |->
                  PageAfterChunking(documents[d], PageChunks(documents[d], cfg))]
  IN  [documents |-> pages, parent_nodes |-> pages,
       child_nodes |-> ExtendAll(documents, 1, cfg)]

\* config.AUTO_MERGE_THRESHOLD, config.NEEDLE_TOP_K, config.SUMMARY_TOP_K
AUTO_MERGE_THRESHOLD == 3
NEEDLE_TOP_K == 6
SUMMARY_TOP_K == 6

\* The attributes of the config module that the model reads; the three
\* credentials are present once the module has been imported (it raises at
\* import when one is missing)
Config ==
  [size |-> CHUNK_SIZE, overlap |-> CHUNK_OVERLAP,
   threshold |-> AUTO_MERGE_THRESHOLD,
   needle_top_k |-> NEEDLE_TOP_K, summary_top_k |-> SUMMARY_TOP_K,
   openai_api_key |-> TRUE, supabase_url |-> TRUE, supabase_key |-> TRUE]


(***************************************************************************)
(* State of an indexing run (create_needle_index).                         *)
(***************************************************************************)
VARIABLES
  pc,            \* the step create_needle_index is at; "idle" between runs
  documents,     \* the pages load_pdf_with_metadata returned
  parent_nodes,  \* create_needle_chunks' first result
  child_nodes,   \* create_needle_chunks' second result
  docstore,      \* the SimpleDocumentStore of the run: the set of stored pages
  docstore_file, \* config.DOCSTORE_PATH on disk
  table,         \* the committed rows of config.CHUNKS_TABLE, in insertion order
  pg_tx,         \* the rows as the open PostgreSQL transaction sees them
  i,             \* enumerate's index in the write loops, counted from 1
  failed_at,     \* the chunk the REST upsert failed at, 0 when it has not failed
  failure,       \* what the REST upsert failed with: "none", "transient", "permanent"
  runs,          \* the runs started so far
  result,        \* how the last run ended: "none", "ok", "aborted", "error"
  done_runs      \* per finished run: its documents, its result, the table it left

index_vars == <<pc, documents, parent_nodes, child_nodes, docstore, docstore_file,
                table, pg_tx, i, failed_at, failure, runs, result, done_runs>>

(***************************************************************************)
(* State of the configuration and of the query side (main.py).             *)
(***************************************************************************)
VARIABLES
  config,        \* the attributes of the config module
  orch,          \* the fields of the ClaimQueryOrchestrator object
  calls,         \* per caller: its batch_query call and the query in flight
  retr           \* the retrieval step: its candidates and its evidence set

query_vars == <<config, orch, calls, retr>>

vars == <<index_vars, query_vars>>

\* ClaimQueryOrchestrator.__init__: the three agents
NewOrchestrator ==
  [routing_agent |-> "RoutingAgent", needle_agent |-> "NeedleAgent",
   summary_agent |-> "SummaryAgent"]

\* No caller and no retrieval: the query side of the indexing runs
QueryIdle ==
  /\ config = Config
  /\ orch = NewOrchestrator
  /\ calls = <<>>
  /\ retr = [kind |-> "none"]

MaxRuns == 2

\* The pages of the document (the claim PDF has ten; two are modelled)
PageNumbers == 1..2

\* Page texts of the indexing runs: a paragraph that is split without
\* overlap, and a paragraph split with overlap followed by a short one.
PageTexts ==
  { <<"a", ".", " ", "a", "a">>,
    <<"a", "a", ".", " ", "a", "\n", "\n", "a">> }

PageId(n) == "page_" \o ToString(n)

\* load_pdf_with_metadata's documents: page n has id_ page_n and the
\* metadata of claim_metadata.json
Page(n, text, type) ==
  [id_ |-> PageId(n), text |-> text,
   metadata |-> [page_number |-> n, type |-> type, page_id |-> PageId(n)]]

PageType(n) == IF n = 1 THEN "Overview" ELSE "Details"

DocumentLists ==
  { [n \in PageNumbers |-> Page(n, texts[n], PageType(n))] :
      texts \in [PageNumbers -> PageTexts] }

\* The row written for a chunk (the embedding column, computed by the
\* external embedding model from node.text, is left out)
RowOf(node) ==
  [chunk_id |-> node.metadata.chunk_id,
   content |-> node.text,
   metadata |-> node.metadata,
   page_number |-> node.metadata.page_number,
   chunk_index |-> node.metadata.chunk_index,
   parent_id |-> node.metadata.parent_id]

\* Mutant: a plain insert, without the conflict clause
InsertOnly(rows, row) == Append(rows, row)

\* upsert(..., on_conflict="chunk_id") and INSERT ... ON CONFLICT (chunk_id)
\* DO UPDATE: the row with the same chunk_id is replaced, a new one is added
Upsert(rows, row) ==
  IF \E k \in 1..Len(rows) : rows[k].chunk_id = row.chunk_id
  THEN [k \in 1..Len(rows) |->
          IF rows[k].chunk_id = row.chunk_id THEN row ELSE rows[k]]
  ELSE Append(rows, row)

\* Mutant: only the first parent reaches the document store
AddFirstDocument(parents) == IF parents = <<>> THEN {} ELSE {parents[1]}

\* docstore.add_documents([parent]) for every parent
AddDocuments(parents) == {parents[k] : k \in 1..Len(parents)}

Init ==
  /\ pc = "idle"
  /\ documents = <<>>
  /\ parent_nodes = <<>>
  /\ child_nodes = <<>>
  /\ docstore = {}
  /\ docstore_file = {}
  /\ table = <<>>
  /\ pg_tx = <<>>
  /\ i = 0
  /\ failed_at = 0
  /\ failure = "none"
  /\ runs = 0
  /\ result = "none"
  /\ done_runs = <<>>
  /\ QueryIdle

\* The run ends with outcome r: create_needle_index returns or raises
Finish(r) ==
  /\ pc' = "idle"
  /\ result' = r
  /\ done_runs' = Append(done_runs, [documents |-> documents', result |-> r, table |-> table'])

\* create_needle_index is called: the pre-flight check of the chunk table
Preflight ==
  /\ pc = "idle"
  /\ runs < MaxRuns
  /\ runs' = runs + 1
  /\ documents' = <<>>
  /\ parent_nodes' = <<>>
  /\ child_nodes' = <<>>
  /\ docstore' = {}
  /\ pg_tx' = <<>>
  /\ i' = 0
  /\ failed_at' = 0
  /\ failure' = "none"
  /\ UNCHANGED <<docstore_file, table>>
  /\ \E outcome \in {"exists", "no_table", "no_connection"} :
       IF outcome = "exists"
       THEN /\ pc' = "load"
            /\ result' = "none"
            /\ UNCHANGED done_runs
       ELSE Finish("aborted")
  /\ UNCHANGED query_vars

\* config.validate_config() and load_pdf_with_metadata()
LoadPdfWithMetadata ==
  /\ pc = "load"
  /\ \E docs \in DocumentLists : documents' = docs
  /\ pc' = "chunk"
  /\ UNCHANGED <<parent_nodes, child_nodes, docstore, docstore_file, table, pg_tx,
                 i, failed_at, runs, result, done_runs>>
  /\ UNCHANGED failure
  /\ UNCHANGED query_vars

\* parent_nodes, child_nodes = create_needle_chunks(documents)
CreateNeedleChunks ==
  /\ pc = "chunk"
  /\ LET out == create_needle_chunks(documents, config)
     IN /\ documents' = out.documents
        /\ parent_nodes' = out.parent_nodes
        /\ child_nodes' = out.child_nodes
  /\ pc' = "docstore"
  /\ UNCHANGED <<docstore, docstore_file, table, pg_tx, i, failed_at,
                 runs, result, done_runs>>
  /\ UNCHANGED failure
  /\ UNCHANGED query_vars

\* store_in_supabase, up to the write loop: the parents go to a new document
\* store, which is persisted
StoreParents ==
  /\ pc = "docstore"
  /\ docstore' = AddDocuments(parent_nodes)
  /\ docstore_file' = docstore'
  /\ i' = 1
  /\ pc' = "upsert"
  /\ UNCHANGED <<documents, parent_nodes, child_nodes, table, pg_tx, failed_at,
                 runs, result, done_runs>>
  /\ UNCHANGED failure
  /\ UNCHANGED query_vars

\* One pass of store_in_supabase's loop: the chunk is embedded and upserted
UpsertChunk ==
  /\ pc = "upsert"
  /\ i <= Len(child_nodes)
  /\ table' = Upsert(table, RowOf(child_nodes[i]))
  /\ i' = i + 1
  /\ UNCHANGED <<pc, documents, parent_nodes, child_nodes, docstore, docstore_file,
                 pg_tx, failed_at, runs, result, done_runs>>
  /\ UNCHANGED failure
  /\ UNCHANGED query_vars

\* get_text_embedding raises in store_in_supabase's loop, outside its try
UpsertEmbeddingFails ==
  /\ pc = "upsert"
  /\ i <= Len(child_nodes)
  /\ UNCHANGED <<documents, parent_nodes, child_nodes, docstore, docstore_file,
                 table, pg_tx, i, failed_at, runs>>
  /\ Finish("error")
  /\ UNCHANGED failure
  /\ UNCHANGED query_vars

\* The failures of the REST upsert: the service cannot be reached
\* (transient), or it rejects the row or returns no data (permanent)
UpsertFailures == {"transient", "permanent"}

\* `except Exception`: whatever the upsert failed with, store_in_supabase
\* goes on with store_via_postgres
AfterUpsertFailure(kind) == "pg_connect"

\* The upsert raises, or returns no data (the row may or may not have been
\* written then): store_in_supabase calls store_via_postgres
UpsertFails ==
  /\ pc = "upsert"
  /\ i <= Len(child_nodes)
  /\ \E written \in BOOLEAN :
       table' = IF written THEN Upsert(table, RowOf(child_nodes[i])) ELSE table
  /\ failed_at' = i
  /\ \E kind \in UpsertFailures :
       /\ failure' = kind
       /\ pc' = AfterUpsertFailure(kind)
  /\ UNCHANGED <<documents, parent_nodes, child_nodes, docstore, docstore_file,
                 pg_tx, i, runs, result, done_runs>>
  /\ UNCHANGED query_vars

\* After the write loop: the VectorStoreIndex is built and persisted, and
\* the run returns; building the index embeds the nodes and may raise
BuildIndex ==
  /\ \/ pc = "upsert" /\ i > Len(child_nodes)
     \/ pc = "pg_index"
  /\ UNCHANGED <<documents, parent_nodes, child_nodes, docstore, docstore_file,
                 table, pg_tx, i, failed_at, runs>>
  /\ \E r \in {"ok", "error"} : Finish(r)
  /\ UNCHANGED failure
  /\ UNCHANGED query_vars

\* store_via_postgres: the URL is parsed and the connection opened
PgConnect ==
  /\ pc = "pg_connect"
  /\ pg_tx' = table
  /\ i' = 1
  /\ pc' = "pg_insert"
  /\ UNCHANGED <<documents, parent_nodes, child_nodes, docstore, docstore_file,
                 table, failed_at, runs, result, done_runs>>
  /\ UNCHANGED failure
  /\ UNCHANGED query_vars

\* The URL does not parse or psycopg2.connect raises
PgConnectFails ==
  /\ pc = "pg_connect"
  /\ UNCHANGED <<documents, parent_nodes, child_nodes, docstore, docstore_file,
                 table, pg_tx, i, failed_at, runs>>
  /\ Finish("error")
  /\ UNCHANGED failure
  /\ UNCHANGED query_vars

\* Mutant: the secondary path inserts without ON CONFLICT
PgInsertOnly(rows, row) == Append(rows, row)

\* The INSERT ... ON CONFLICT statement of the secondary path
PgStatement(rows, row) == Upsert(rows, row)

\* A connection in autocommit mode: every statement is committed at once
VisibleWithAutocommit(committed, tx) == tx

\* What the table shows while the transaction is open: psycopg2 opens the
\* connection without autocommit, so the rows of the transaction stay its own
\* until conn.commit()
VisibleInTransaction(committed, tx) == committed

\* One pass of store_via_postgres' loop, inside the open transaction
PgInsert ==
  /\ pc = "pg_insert"
  /\ i <= Len(child_nodes)
  /\ pg_tx' = PgStatement(pg_tx, RowOf(child_nodes[i]))
  /\ table' = VisibleInTransaction(table, pg_tx')
  /\ i' = i + 1
  /\ UNCHANGED <<pc, documents, parent_nodes, child_nodes, docstore, docstore_file,
                 failed_at, runs, result, done_runs>>
  /\ UNCHANGED failure
  /\ UNCHANGED query_vars

\* Embedding or cursor.execute raises: nothing is committed
PgInsertFails ==
  /\ pc = "pg_insert"
  /\ i <= Len(child_nodes)
  /\ pg_tx' = <<>>
  /\ UNCHANGED <<documents, parent_nodes, child_nodes, docstore, docstore_file,
                 table, i, failed_at, runs>>
  /\ Finish("error")
  /\ UNCHANGED failure
  /\ UNCHANGED query_vars

\* conn.commit() after the last chunk
PgCommit ==
  /\ pc = "pg_insert"
  /\ i > Len(child_nodes)
  /\ table' = pg_tx
  /\ pg_tx' = <<>>
  /\ pc' = "pg_index"
  /\ UNCHANGED <<documents, parent_nodes, child_nodes, docstore, docstore_file,
                 i, failed_at, runs, result, done_runs>>
  /\ UNCHANGED failure
  /\ UNCHANGED query_vars

Next ==
  \/ Preflight
  \/ LoadPdfWithMetadata
  \/ CreateNeedleChunks
  \/ StoreParents
  \/ UpsertChunk
  \/ UpsertEmbeddingFails
  \/ UpsertFails
  \/ BuildIndex
  \/ PgConnect
  \/ PgConnectFails
  \/ PgInsert
  \/ PgInsertFails
  \/ PgCommit

Spec == Init /\ [][Next]_vars

(***************************************************************************)
(* The chunker alone, on every page text of at most MaxTextLen characters.  *)
(***************************************************************************)
InitChunk ==
  /\ pc = "chunk"
  /\ \E text \in StringsUpTo(MaxTextLen) : documents = <<Page(1, text, PageType(1))>>
  /\ parent_nodes = <<>>
  /\ child_nodes = <<>>
  /\ docstore = {}
  /\ docstore_file = {}
  /\ table = <<>>
  /\ pg_tx = <<>>
  /\ i = 0
  /\ failed_at = 0
  /\ failure = "none"
  /\ runs = 1
  /\ result = "none"
  /\ done_runs = <<>>
  /\ QueryIdle

NextChunk == CreateNeedleChunks

SpecChunk == InitChunk /\ [][NextChunk]_vars


(***************************************************************************)
(* store_in_supabase called on its own, with any parent_nodes: the chunks   *)
(* of a document list and a sub-list of its pages as the parents.           *)
(***************************************************************************)
InitDirect ==
  /\ pc = "docstore"
  /\ \E docs \in DocumentLists : \E keep \in SUBSET (1..Len(docs)) :
       /\ documents = docs
       /\ child_nodes = create_needle_chunks(docs, Config).child_nodes
       /\ parent_nodes = SelectSeq(docs, LAMBDA d : d.metadata.page_number \in keep)
  /\ docstore = {}
  /\ docstore_file = {}
  /\ table = <<>>
  /\ pg_tx = <<>>
  /\ i = 0
  /\ failed_at = 0
  /\ failure = "none"
  /\ runs = 1
  /\ result = "none"
  /\ done_runs = <<>>
  /\ QueryIdle

NextDirect ==
  \/ StoreParents
  \/ UpsertChunk
  \/ UpsertEmbeddingFails
  \/ UpsertFails
  \/ BuildIndex
  \/ PgConnect
  \/ PgConnectFails
  \/ PgInsert
  \/ PgInsertFails
  \/ PgCommit

SpecDirect == InitDirect /\ [][NextDirect]_vars

(***************************************************************************)
(* Properties.                                                             *)
(***************************************************************************)
Chunks == {child_nodes[k] : k \in 1..Len(child_nodes)}

\* s without its leading whitespace
LStrip(s) ==
  LET keep == {k \in 1..Len(s) : ~IsSpace(s[k])}
  IN IF keep = {} THEN <<>> ELSE SubSeq(s, SetMin(keep), Len(s))

IsPrefix(p, s) == Len(p) <= Len(s) /\ SubSeq(s, 1, Len(p)) = p

\* The create_needle_chunks step has produced its output
Chunked == pc = "docstore"

\* C1: every chunk is at most CHUNK_SIZE characters long, unless it holds a
\* single sentence that is itself longer than CHUNK_SIZE (an overlap seed
\* followed by one sentence of at most CHUNK_SIZE characters is bound too).
C1_SizeBound ==
  \A c \in Chunks :
    \/ c.metadata.chunk_size <= CHUNK_SIZE
    \/ Len(c.trace.sents) = 1 /\ Len(c.trace.sents[1]) > CHUNK_SIZE

\* The parents are in the document store of the run
ParentsStored == pc \in {"upsert", "pg_connect", "pg_insert", "pg_index"}

\* C2: the parent_id of every chunk is the id of one of the parent pages
\* returned with it, and of a page of the document store once the parents
\* are stored.
C2_ParentResolves ==
  \A c \in Chunks :
    /\ \E p \in 1..Len(parent_nodes) : parent_nodes[p].id_ = c.metadata.parent_id
    /\ ParentsStored => \E page \in docstore : page.id_ = c.metadata.parent_id

C2_Witness ==
  /\ ParentsStored
  /\ \E c, d \in Chunks : c.metadata.parent_id # d.metadata.parent_id

\* A chunk whose parent_id names none of the parents passed to the store
HasOrphan ==
  \E c \in Chunks :
    \A p \in 1..Len(parent_nodes) : parent_nodes[p].id_ # c.metadata.parent_id

\* C3: a write of chunks of which one names a parent that is not stored is
\* rejected: no chunk row is written and the call does not succeed.
C3_OrphanRejected ==
  HasOrphan => table = <<>> /\ pg_tx = <<>> /\ result # "ok"


\* The paragraphs of the page of SpecChunk, as split at the blank line
Paragraphs == Split(documents[1].text, PARA_BREAK)

\* The chunks emitted for the j-th paragraph, in emission order
ChunksOfPara(j) == SelectSeq(child_nodes, LAMBDA c : c.trace.para = j)

\* A chunk's text without the overlap seed (and the space after it) that
\* its buffer was started with
WithoutSeed(c) ==
  IF c.trace.seeded THEN SliceFrom(c.text, Len(LStrip(c.trace.seed)) + 1) ELSE c.text

RECURSIVE JoinWithoutSeeds(_)
JoinWithoutSeeds(cs) ==
  IF cs = <<>> THEN <<>>
  ELSE IF Len(cs) = 1 THEN WithoutSeed(cs[1])
  ELSE WithoutSeed(cs[1]) \o SPACE \o JoinWithoutSeeds(Tail(cs))

\* C4: the chunks of a page, in order and without their overlap seeds,
\* give back the non-empty paragraphs of the page, in order, every sentence
\* once.
C4_Coverage ==
  Chunked =>
    /\ \A j \in 1..Len(Paragraphs) :
         JoinWithoutSeeds(ChunksOfPara(j)) = Strip(Paragraphs[j])
    /\ \A k, l \in 1..Len(child_nodes) :
         k < l => child_nodes[k].trace.para <= child_nodes[l].trace.para

\* C5: the overlap seed starts at the start of a word of the closed chunk:
\* it is the whole chunk or the character before it is a space.
C5_SeedAtWordStart ==
  \A c \in Chunks :
    c.trace.seeded =>
      LET seed == c.trace.seed
          closed == c.trace.closed_text
      IN \/ Len(seed) >= Len(closed)
         \/ closed[Len(closed) - Len(seed)] = " "

\* A chunk of a split paragraph that is not the first chunk of it
FollowsClose(c) == c.trace.split /\ c.trace.closed # <<>>

C7_DenseIndex ==
  \A k \in 1..Len(child_nodes) :
    child_nodes[k].metadata.chunk_index =
      Cardinality({l \in 1..(k - 1) :
                     child_nodes[l].metadata.parent_id = child_nodes[k].metadata.parent_id})

C7_Witness ==
  /\ Chunked
  /\ Len(child_nodes) >= 3
  /\ \E k, l \in 1..Len(child_nodes) :
       /\ k < l
       /\ child_nodes[k].trace.split
       /\ ~child_nodes[l].trace.split
       /\ child_nodes[l].metadata.chunk_index = l - 1

\* C8: a chunk's id is '<parent_id>_chunk_<chunk_index>', it is the
\* chunk_id of its metadata, and no two chunks of one output share an id.
C8_ChunkId ==
  /\ \A c \in Chunks :
       /\ c.id_ = c.metadata.parent_id \o "_chunk_" \o ToString(c.metadata.chunk_index)
       /\ c.id_ = c.metadata.chunk_id
  /\ \A k, l \in 1..Len(child_nodes) : k # l => child_nodes[k].id_ # child_nodes[l].id_

C8_Witness ==
  /\ Len(child_nodes) >= 4
  /\ \E c, d \in Chunks : c.metadata.parent_id # d.metadata.parent_id
  /\ \E c, d \in Chunks : c.metadata.parent_id = d.metadata.parent_id /\ c.id_ # d.id_

Rows(rows) == {rows[k] : k \in 1..Len(rows)}

\* C9: a run that completes on the pages of the completed run before it
\* leaves the chunk table as that run left it: the same rows, none twice.
C9_Reindex ==
  \A r \in 1..(Len(done_runs) - 1) :
    ( /\ done_runs[r].result = "ok"
      /\ done_runs[r + 1].result = "ok"
      /\ done_runs[r + 1].documents = done_runs[r].documents )
    => /\ Rows(done_runs[r + 1].table) = Rows(done_runs[r].table)
       /\ Len(done_runs[r + 1].table) = Len(done_runs[r].table)

C9_Witness ==
  \E r \in 1..(Len(done_runs) - 1) :
    /\ done_runs[r].result = "ok"
    /\ done_runs[r + 1].result = "ok"
    /\ done_runs[r + 1].documents = done_runs[r].documents
    /\ Len(done_runs[r + 1].table) >= 4

\* The rows of the table with the id of chunk c
RowsFor(c) == {k \in 1..Len(table) : table[k].chunk_id = c.metadata.chunk_id}

\* C10: once the REST upsert has failed at a chunk, the run is on the
\* PostgreSQL path, and when that path has committed the table holds exactly
\* one row for each chunk id of the run.
C10_Fallback ==
  failed_at > 0 =>
    /\ pc \in {"pg_connect", "pg_insert", "pg_index", "idle"}
    /\ pc = "pg_index" =>
         \A c \in Chunks : Cardinality(RowsFor(c)) = 1 /\ table[CHOOSE k \in RowsFor(c) : TRUE] = RowOf(c)

C10_Witness ==
  /\ pc = "pg_index"
  /\ failed_at = Len(child_nodes)
  /\ failed_at >= 2


\* The chunk table as the run found it
TableAtStart ==
  IF done_runs = <<>> THEN <<>> ELSE done_runs[Len(done_runs)].table

\* The chunks the write loop of the run has passed
WrittenChunks ==
  IF pc \in {"upsert", "pg_insert"} THEN {child_nodes[k] : k \in 1..(i - 1)}
  ELSE IF pc \in {"pg_connect", "pg_index"} THEN Chunks
  ELSE {}

\* C11: within a run no chunk row is written before the parents are in the
\* document store, and at every later step of the run (REST loop, fallback,
\* commit) the parent page of every chunk written is in the document store.
C11_ParentsFirst ==
  /\ pc \in {"load", "chunk", "docstore"} =>
       table = TableAtStart /\ pg_tx = <<>> /\ docstore = {}
  /\ ParentsStored =>
       /\ \A p \in 1..Len(parent_nodes) : parent_nodes[p] \in docstore
       /\ \A c \in WrittenChunks :
            \E page \in docstore : page.id_ = c.metadata.parent_id
  /\ pc \notin {"idle", "load", "chunk", "docstore"} \/ table = TableAtStart

C11_Witness ==
  /\ pc = "pg_insert"
  /\ failed_at >= 2
  /\ i >= 2
  /\ \E c, d \in WrittenChunks : c.metadata.parent_id # d.metadata.parent_id


(***************************************************************************)
(* Retrieval: configuration validation (Config/config.py), the Auto-Merge  *)
(* Resolver of the needle agent and the Summary Selection Policy of the    *)
(* summary agent.  The two agents are not part of the sources at hand;     *)
(* their operators follow sections 4.4 and 4.6 of the specification.       *)
(***************************************************************************)
MaxCandidates == 4
MaxThreshold == 3
MaxRanked == 3
MaxTopK == 3

\* Sequences without repetition over S, of length at most n
RECURSIVE Rankings(_, _)
Rankings(S, n) ==
  IF n = 0 \/ S = {} THEN {<<>>}
  ELSE {<<>>} \cup UNION {{<<x>> \o r : r \in Rankings(S \ {x}, n - 1)} : x \in S}

\* The chunks of the chunk index that a query can hit
IndexedChunks ==
  {[chunk_id |-> ChunkIdOf(PageId(n), k), parent_id |-> PageId(n)] :
     n \in {1}, k \in 0..2}
  \cup {[chunk_id |-> ChunkIdOf(PageId(n), k), parent_id |-> PageId(n)] :
          n \in {2}, k \in 0..1}

\* The pages of the summary index
SummaryPages == {PageId(n) : n \in 1..4}

\* A ranked result of a vector index query: best hit first, scores descending
Scored(ranking) ==
  [k \in 1..Len(ranking) |->
     [ref |-> ranking[k], score |-> Len(ranking) + 1 - k]]

\* validate_config: the errors it collects
ConfigErrors(cfg) ==
  (IF ~cfg.openai_api_key THEN {"OPENAI_API_KEY is missing"} ELSE {})
  \cup (IF ~cfg.supabase_url THEN {"SUPABASE_URL is missing"} ELSE {})
  \cup (IF ~cfg.supabase_key THEN {"SUPABASE_KEY is missing"} ELSE {})

\* validate_config: raises ValueError when there are errors, else returns True
validate_config(cfg) ==
  IF ConfigErrors(cfg) # {} THEN "ValueError" ELSE "ok"

\* Items of an evidence set in descending order of score
RECURSIVE ByScore(_)
ByScore(items) ==
  IF items = {} THEN <<>>
  ELSE LET best == CHOOSE x \in items : \A y \in items : y.score <= x.score
       IN  <<best>> \o ByScore(items \ {best})

\* The candidates of one parent
Group(candidates, parent_id) ==
  {k \in 1..Len(candidates) : candidates[k].ref.parent_id = parent_id}

\* Largest score of a group
BestScore(candidates, group) ==
  SetMax({candidates[k].score : k \in group})

\* A group that keeps its member chunks although it is merged
ResolveKeepingMembers(candidates, threshold) ==
  LET parents == {candidates[k].ref.parent_id : k \in 1..Len(candidates)}
      merged == {p \in parents : Cardinality(Group(candidates, p)) >= threshold}
  IN  ByScore({[kind |-> "page", id |-> p, parent_id |-> p,
                score |-> BestScore(candidates, Group(candidates, p))] :
                 p \in merged}
              \cup {[kind |-> "chunk", id |-> candidates[k].ref.chunk_id,
                     parent_id |-> candidates[k].ref.parent_id,
                     score |-> candidates[k].score] :
                      k \in 1..Len(candidates)})

\* resolve (section 4.4): groups by parent; a group of at least threshold
\* chunks becomes one page item scored with the group's best score, the
\* others pass through; descending score
Resolve(candidates, threshold) ==
  LET parents == {candidates[k].ref.parent_id : k \in 1..Len(candidates)}
      merged == {p \in parents : Cardinality(Group(candidates, p)) >= threshold}
  IN  ByScore({[kind |-> "page", id |-> p, parent_id |-> p,
                score |-> BestScore(candidates, Group(candidates, p))] :
                 p \in merged}
              \cup {[kind |-> "chunk", id |-> candidates[k].ref.chunk_id,
                     parent_id |-> candidates[k].ref.parent_id,
                     score |-> candidates[k].score] :
                      k \in {j \in 1..Len(candidates) :
                               candidates[j].ref.parent_id \notin merged}})

\* The first n elements of a sequence
Head_n(seq, n) == SubSeq(seq, 1, IF n < Len(seq) THEN n ELSE Len(seq))

\* A policy that counts the Overview pages against the k slots
SelectTopK(ranked, overview, k) ==
  Head_n(ranked, k)

\* selectSummaries (section 4.6): every Overview page, then the best
\* Details pages of the ranking in the slots that remain up to k
SelectSummaries(ranked, overview, k) ==
  LET details == SelectSeq(ranked, LAMBDA c : c.ref \notin overview)
      slots == IF k > Cardinality(overview) THEN k - Cardinality(overview) ELSE 0
      first == SelectSeq(ranked, LAMBDA c : c.ref \in overview)
      unranked == overview \ {ranked[j].ref : j \in 1..Len(ranked)}
  IN  first \o ByScore({[ref |-> p, score |-> 0] : p \in unranked})
      \o Head_n(details, slots)


\* No indexing run in progress and nothing indexed by this model's runs
IndexIdle ==
  /\ pc = "idle"
  /\ documents = <<>>
  /\ parent_nodes = <<>>
  /\ child_nodes = <<>>
  /\ docstore = {}
  /\ docstore_file = {}
  /\ table = <<>>
  /\ pg_tx = <<>>
  /\ i = 0
  /\ failed_at = 0
  /\ failure = "none"
  /\ runs = 0
  /\ result = "none"
  /\ done_runs = <<>>

\* A retrieval about to run: the needle path with the hits of the chunk
\* index, or the summary path with the ranking of the summary index and the
\* Overview pages; the merge threshold and the summary top-k as configured
InitRetrieve ==
  /\ IndexIdle
  /\ orch = NewOrchestrator
  /\ calls = <<>>
  /\ \E t \in 0..MaxThreshold, k \in 1..MaxTopK :
       config = [Config EXCEPT !.threshold = t, !.summary_top_k = k]
  /\ \/ \E hits \in Rankings(IndexedChunks, MaxCandidates) :
          /\ config.summary_top_k = 1
          /\ retr = [kind |-> "needle", candidates |-> Scored(hits),
                     overview |-> {}, validated |-> "none",
                     status |-> "ready", evidence |-> <<>>]
     \/ \E ranking \in Rankings(SummaryPages, MaxRanked),
           overview \in SUBSET SummaryPages :
          /\ config.threshold = AUTO_MERGE_THRESHOLD
          /\ retr = [kind |-> "summary", candidates |-> Scored(ranking),
                     overview |-> overview, validated |-> "none",
                     status |-> "ready", evidence |-> <<>>]

\* config.validate_config()
ValidateConfig ==
  /\ retr.kind # "none"
  /\ retr.validated = "none"
  /\ retr' = [retr EXCEPT !.validated = validate_config(config)]
  /\ UNCHANGED <<config, orch, calls>>
  /\ UNCHANGED index_vars

\* The needle agent's merge step: resolve with config.AUTO_MERGE_THRESHOLD
AutoMerge ==
  /\ retr.kind = "needle"
  /\ retr.status = "ready"
  /\ retr' = IF config.threshold <= 1
             THEN [retr EXCEPT !.status = "InvalidThreshold"]
             ELSE [retr EXCEPT !.status = "done",
                               !.evidence = Resolve(retr.candidates, config.threshold)]
  /\ UNCHANGED <<config, orch, calls>>
  /\ UNCHANGED index_vars

\* The summary agent's selection step with config.SUMMARY_TOP_K
SelectSummaryPages ==
  /\ retr.kind = "summary"
  /\ retr.status = "ready"
  /\ retr' = [retr EXCEPT !.status = "done",
                          !.evidence = SelectSummaries(retr.candidates, retr.overview,
                                                       config.summary_top_k)]
  /\ UNCHANGED <<config, orch, calls>>
  /\ UNCHANGED index_vars

NextRetrieve == ValidateConfig \/ AutoMerge \/ SelectSummaryPages

SpecRetrieve == InitRetrieve /\ [][NextRetrieve]_vars

\* The positions of the evidence set that hold the item
Positions(item) ==
  {k \in 1..Len(retr.evidence) : retr.evidence[k] = item}

\* The candidate as an individual chunk item of the evidence set
ChunkItem(c) ==
  [kind |-> "chunk", id |-> c.ref.chunk_id, parent_id |-> c.ref.parent_id,
   score |-> c.score]

\* C12: for a merge threshold t > 1, a parent with at least t candidate
\* chunks is in the evidence set exactly once as a merged page and none of
\* its chunks is in it; a parent with fewer candidates has each of its chunks
\* in it exactly once, unchanged; no merged page shares the evidence set with
\* a chunk of that page.
C12_MergeCorrect ==
  (retr.kind = "needle" /\ retr.status = "done" /\ config.threshold > 1) =>
    LET cands == retr.candidates
        ev == retr.evidence
    IN  /\ \A k \in 1..Len(cands) :
             LET p == cands[k].ref.parent_id
                 pages == {j \in 1..Len(ev) : ev[j].kind = "page" /\ ev[j].id = p}
                 members == {j \in 1..Len(ev) :
                               ev[j].kind = "chunk" /\ ev[j].parent_id = p}
             IN  IF Cardinality(Group(cands, p)) >= config.threshold
                 THEN Cardinality(pages) = 1 /\ members = {}
                 ELSE /\ pages = {}
                      /\ Cardinality(Positions(ChunkItem(cands[k]))) = 1
                      /\ Cardinality(members) = Cardinality(Group(cands, p))
        /\ \A a, b \in 1..Len(ev) :
             ~(ev[a].kind = "page" /\ ev[b].kind = "chunk"
               /\ ev[b].parent_id = ev[a].id)
        /\ \A j \in 1..Len(ev) :
             \E k \in 1..Len(cands) : ev[j].parent_id = cands[k].ref.parent_id

\* A merged page next to chunks of another page that passed through
C12_Witness ==
  /\ retr.kind = "needle"
  /\ retr.status = "done"
  /\ config.threshold = 2
  /\ \E a, b \in 1..Len(retr.evidence) :
       /\ retr.evidence[a].kind = "page"
       /\ retr.evidence[b].kind = "chunk"
  /\ Len(retr.evidence) < Len(retr.candidates)

\* C13: a configuration whose merge threshold is at most 1 does not pass
\* validation, and no merge is performed with it.
C13_ThresholdRejected ==
  config.threshold <= 1 =>
    /\ retr.validated # "ok"
    /\ retr.status \in {"ready", "InvalidThreshold"}


\* The pages of the evidence set
EvidencePages == {retr.evidence[j].ref : j \in 1..Len(retr.evidence)}

\* The Details pages of the ranking, best first
RankedDetails ==
  SelectSeq(retr.candidates, LAMBDA c : c.ref \notin retr.overview)

\* C14: the evidence set of the summary path holds every Overview page,
\* ranked or not; its Details pages are the best-ranked ones, in rank order,
\* as many as slots remain up to SUMMARY_TOP_K, and none when the Overview
\* pages number SUMMARY_TOP_K or more.
C14_OverviewGuarantee ==
  (retr.kind = "summary" /\ retr.status = "done") =>
    LET ev == retr.evidence
        k == config.summary_top_k
        n_over == Cardinality(retr.overview)
        slots == IF k > n_over THEN k - n_over ELSE 0
        added == SelectSeq(ev, LAMBDA e : e.ref \notin retr.overview)
    IN  /\ retr.overview \subseteq EvidencePages
        /\ added = Head_n(RankedDetails, slots)
        /\ n_over >= k => added = <<>>
        /\ \A a, b \in 1..Len(ev) : ev[a].ref = ev[b].ref => a = b

\* Overview pages ranked last or not ranked at all, next to Details pages
\* that rank above them, some of which found no slot
C14_Witness ==
  /\ retr.kind = "summary"
  /\ retr.status = "done"
  /\ config.summary_top_k = 2
  /\ Cardinality(retr.overview) = 1
  /\ Len(RankedDetails) >= 2
  /\ \E j \in 1..Len(retr.evidence) : retr.evidence[j].ref \notin retr.overview
  /\ \/ retr.overview \cap {retr.candidates[j].ref : j \in 1..Len(retr.candidates)} = {}
     \/ retr.candidates[Len(retr.candidates)].ref \in retr.overview

\* Overview pages that alone fill the evidence set beyond SUMMARY_TOP_K
C14_WitnessFull ==
  /\ retr.kind = "summary"
  /\ retr.status = "done"
  /\ Cardinality(retr.overview) > config.summary_top_k
  /\ RankedDetails # <<>>
  /\ Len(retr.evidence) = Cardinality(retr.overview)


(***************************************************************************)
(* Queries: ClaimQueryOrchestrator.query and batch_query (main.py), called *)
(* by concurrent callers on one orchestrator object.  The routing agent    *)
(* and the two retrieval agents are not part of the sources at hand: the   *)
(* router follows section 4.5 of the specification and an agent's answer   *)
(* is a function of the agent and of the query.                            *)
(***************************************************************************)
MaxBatch == 2

Callers == {"caller_1", "caller_2"}

\* Query texts: a fact lookup, a broad question, and one the router cannot
\* classify with confidence
Queries == {"fact", "overview", "ambiguous"}

\* Lists of at most n queries
RECURSIVE QueryLists(_)
QueryLists(n) ==
  IF n = 0 THEN {<<>>}
  ELSE {<<>>} \cup {<<q>> \o l : q \in Queries, l \in QueryLists(n - 1)}

\* route (section 4.5): summary for a broad query, needle for a fact lookup
\* and by default
Route(query) == IF query = "overview" THEN "summary" ELSE "needle"

\* answer_query of an agent: its result for the query
AnswerQuery(agent, query) ==
  [answer |-> <<agent, query>>, sources |-> <<agent, "page">>]

NoResult == [answer |-> <<>>, sources |-> <<>>]

\* A caller that has not called yet
IdleCall ==
  [kind |-> "none", queries |-> <<>>, n |-> 0, results |-> <<>>,
   pc |-> "idle", query |-> "", route |-> "", agent_type |-> "",
   result |-> NoResult, returned |-> <<>>,
   router_calls |-> 0, needle_calls |-> 0, summary_calls |-> 0,
   overlap |-> FALSE]

\* The locals of query() at its entry
EnterQuery(call, user_query) ==
  [call EXCEPT !.pc = "route", !.query = user_query, !.route = "",
               !.agent_type = "", !.result = NoResult,
               !.router_calls = 0, !.needle_calls = 0, !.summary_calls = 0]

\* The branch that ignores the decision
AgentAlwaysNeedle(route) == "needle"

\* query, lines 67-77: the branch taken on the decision
AgentFor(route) == IF route = "summary" THEN "summary" ELSE "needle"

\* A response that reports the query text as its route
FormatWithoutRoute(call) ==
  [query |-> call.query, route |-> call.query, agent |-> call.agent_type,
   answer |-> call.result.answer, sources |-> call.result.sources,
   metadata |-> [agent_type |-> call.agent_type]]

\* query, lines 80-91: the response dictionary
FormatResponse(call) ==
  [query |-> call.query, route |-> call.route, agent |-> call.agent_type,
   answer |-> call.result.answer, sources |-> call.result.sources,
   metadata |-> [agent_type |-> call.agent_type]]

\* A handler that swallows the exception and hands back what it has
ReturnPartial(call) ==
  [call EXCEPT !.pc = "returned", !.returned = call.results]

\* An exception leaves query and batch_query: neither has a handler, the
\* locals are dropped and nothing is returned
Raise(call) ==
  [call EXCEPT !.pc = "raised"]

\* A decision kept where every call in flight reads it
StoreRouteShared(cs, c, route) ==
  [k \in DOMAIN cs |->
     IF k = c THEN [cs[k] EXCEPT !.route = route,
                                 !.router_calls = cs[k].router_calls + 1,
                                 !.pc = "dispatch"]
     ELSE [cs[k] EXCEPT !.route = route]]

\* query, line 64: the decision is a local of the call
StoreRoute(cs, c, route) ==
  [cs EXCEPT ![c] = [cs[c] EXCEPT !.route = route,
                                  !.router_calls = cs[c].router_calls + 1,
                                  !.pc = "dispatch"]]

\* Whether another caller's query is in flight
OthersInFlight(c) ==
  \E o \in Callers \ {c} : calls[o].pc \in {"route", "dispatch", "format"}

\* The calls, with caller c marked when it steps beside another query in flight
Mark(c) ==
  [calls EXCEPT ![c].overlap = @ \/ OthersInFlight(c)]

\* The orchestrator and the callers before any call
InitQuery ==
  /\ IndexIdle
  /\ config = Config
  /\ orch = NewOrchestrator
  /\ calls = [c \in Callers |-> IdleCall]
  /\ retr = [kind |-> "none"]


\* A caller calls orchestrator.query(user_query)
StartQuery(c) ==
  /\ calls[c].pc = "idle"
  /\ \E q \in Queries :
       calls' = [Mark(c) EXCEPT ![c] =
                   EnterQuery([@ EXCEPT !.kind = "query", !.queries = <<q>>, !.n = 1], q)]
  /\ UNCHANGED <<config, orch, retr>>
  /\ UNCHANGED index_vars

\* A caller calls orchestrator.batch_query(queries)
StartBatch(c) ==
  /\ calls[c].pc = "idle"
  /\ \E qs \in QueryLists(MaxBatch) :
       calls' = [Mark(c) EXCEPT ![c] =
                   IF qs = <<>>
                   THEN [@ EXCEPT !.kind = "batch_query", !.pc = "returned"]
                   ELSE EnterQuery([@ EXCEPT !.kind = "batch_query",
                                             !.queries = qs, !.n = 1], qs[1])]
  /\ UNCHANGED <<config, orch, retr>>
  /\ UNCHANGED index_vars

\* query, line 64: self.routing_agent.route(user_query) returns
RouteQuery(c) ==
  /\ calls[c].pc = "route"
  /\ calls' = StoreRoute(Mark(c), c, Route(calls[c].query))
  /\ UNCHANGED <<config, orch, retr>>
  /\ UNCHANGED index_vars

\* query, line 64: the routing agent raises
RouteFails(c) ==
  /\ calls[c].pc = "route"
  /\ calls' = [Mark(c) EXCEPT ![c] =
                 Raise([@ EXCEPT !.router_calls = @ + 1])]
  /\ UNCHANGED <<config, orch, retr>>
  /\ UNCHANGED index_vars

\* The call with one more invocation of the agent
Invoked(call, agent) ==
  IF agent = "summary"
  THEN [call EXCEPT !.summary_calls = @ + 1]
  ELSE [call EXCEPT !.needle_calls = @ + 1]

\* query, lines 67-77: the agent of the branch answers
Dispatch(c) ==
  /\ calls[c].pc = "dispatch"
  /\ LET agent == AgentFor(calls[c].route)
     IN  calls' = [Mark(c) EXCEPT ![c] =
                     [Invoked(@, agent) EXCEPT
                        !.agent_type = agent,
                        !.result = AnswerQuery(agent, calls[c].query),
                        !.pc = "format"]]
  /\ UNCHANGED <<config, orch, retr>>
  /\ UNCHANGED index_vars

\* query, lines 70 and 75: the agent of the branch raises
DispatchFails(c) ==
  /\ calls[c].pc = "dispatch"
  /\ calls' = [Mark(c) EXCEPT ![c] =
                 Raise(Invoked(@, AgentFor(calls[c].route)))]
  /\ UNCHANGED <<config, orch, retr>>
  /\ UNCHANGED index_vars

\* query, lines 80-110, and batch_query, lines 123-132: the response is
\* built and returned; batch_query appends it and goes on with the next
\* query or returns the list
Format(c) ==
  /\ calls[c].pc = "format"
  /\ LET response == FormatResponse(calls[c])
     IN  calls' = [Mark(c) EXCEPT ![c] =
                     IF @.kind = "query"
                     THEN [@ EXCEPT !.pc = "returned", !.returned = <<response>>]
                     ELSE IF @.n < Len(@.queries)
                     THEN [EnterQuery(@, @.queries[@.n + 1]) EXCEPT
                             !.n = @ + 1,
                             !.results = Append(@, response)]
                     ELSE [@ EXCEPT !.pc = "returned",
                                    !.results = Append(@, response),
                                    !.returned = Append(calls[c].results, response)]]
  /\ UNCHANGED <<config, orch, retr>>
  /\ UNCHANGED index_vars

NextQuery ==
  \/ \E c \in Callers : StartQuery(c)
  \/ \E c \in Callers : StartBatch(c)
  \/ \E c \in Callers : RouteQuery(c)
  \/ \E c \in Callers : RouteFails(c)
  \/ \E c \in Callers : Dispatch(c)
  \/ \E c \in Callers : DispatchFails(c)
  \/ \E c \in Callers : Format(c)

SpecQuery == InitQuery /\ [][NextQuery]_vars


\* The calls of query() that got past the router, and past the agent
Routed(call) ==
  \/ call.pc \in {"dispatch", "format"}
  \/ call.pc = "returned" /\ call.n >= 1

Answered(call) ==
  \/ call.pc = "format"
  \/ call.pc = "returned" /\ call.n >= 1

\* C15: a query() call consults the router once, before any agent, and then
\* invokes one agent once: the summary agent exactly when the decision is
\* summary, the needle agent on every other decision.
C15_OneRouteOneAgent ==
  \A c \in Callers :
    LET call == calls[c]
    IN  /\ call.router_calls <= 1
        /\ call.needle_calls + call.summary_calls <= 1
        /\ call.pc = "route" =>
             call.router_calls = 0 /\ call.needle_calls + call.summary_calls = 0
        /\ call.pc = "dispatch" =>
             call.router_calls = 1 /\ call.needle_calls + call.summary_calls = 0
        /\ Routed(call) => call.router_calls = 1
        /\ Answered(call) =>
             /\ call.needle_calls + call.summary_calls = 1
             /\ call.summary_calls = 1 <=> call.route = "summary"
             /\ call.needle_calls = 1 <=> call.route # "summary"
             /\ call.needle_calls = 1 <=> call.agent_type = "needle"
        /\ call.needle_calls + call.summary_calls = 1 => call.router_calls = 1

\* A query answered by the summary agent beside one answered by the needle
\* agent on the default path
C15_Witness ==
  \E c, o \in Callers :
    /\ calls[c].pc = "returned" /\ calls[c].summary_calls = 1
    /\ calls[c].query = "overview"
    /\ calls[o].pc = "returned" /\ calls[o].needle_calls = 1
    /\ calls[o].query = "ambiguous"

\* The responses a caller holds or that batch_query has collected
Responses(c) ==
  {calls[c].returned[k] : k \in 1..Len(calls[c].returned)}
  \cup {calls[c].results[k] : k \in 1..Len(calls[c].results)}

C17_FailurePropagates ==
  \A c \in Callers :
    LET call == calls[c]
    IN  /\ call.pc # "returned" => call.returned = <<>>
        /\ call.pc = "returned" =>
             /\ Len(call.returned) = Len(call.queries)
             /\ \A k \in 1..Len(call.returned) :
                  /\ call.returned[k].query = call.queries[k]
                  /\ call.returned[k].answer # <<>>
        /\ call.pc = "raised" =>
             call.result = NoResult /\ call.n >= 1

\* A batch that fails at its second query, once in the router and once in
\* the agent, after its first response was collected
C17_Witness ==
  \E c, o \in Callers :
    /\ calls[c].pc = "raised" /\ calls[c].kind = "batch_query"
    /\ calls[c].n = 2 /\ Len(calls[c].results) = 1
    /\ calls[c].needle_calls + calls[c].summary_calls = 1
    /\ calls[o].pc = "raised" /\ calls[o].router_calls = 1
    /\ calls[o].needle_calls + calls[o].summary_calls = 0

\* The response of a query that runs alone on the orchestrator
Sequential(query) ==
  LET agent == AgentFor(Route(query))
  IN  [query |-> query, route |-> Route(query), agent |-> agent,
       answer |-> AnswerQuery(agent, query).answer,
       sources |-> AnswerQuery(agent, query).sources,
       metadata |-> [agent_type |-> agent]]

\* C18: no step of a query writes the orchestrator, and however the steps of
\* two calls interleave, each returns what its queries yield one after the
\* other.
C18_Independent ==
  /\ orch = NewOrchestrator
  /\ \A c \in Callers :
       /\ calls[c].pc = "returned" =>
            calls[c].returned = [k \in 1..Len(calls[c].queries) |->
                                   Sequential(calls[c].queries[k])]
       /\ \A k \in 1..Len(calls[c].results) :
            calls[c].results[k] = Sequential(calls[c].queries[k])

\* Two calls on different routes, each of which stepped while the other was
\* in flight, both returned
C18_Witness ==
  /\ \A c \in Callers :
       /\ calls[c].pc = "returned"
       /\ calls[c].overlap
       /\ calls[c].returned # <<>>
  /\ calls["caller_1"].returned[1].route # calls["caller_2"].returned[1].route


(***************************************************************************)
(* create_needle_chunks under every overlap the chunker's contract allows. *)
(***************************************************************************)
MaxOverlapTextLen == 6

\* One page of any text, and CHUNK_OVERLAP anywhere in 0 .. CHUNK_SIZE - 1
InitOverlap ==
  /\ pc = "chunk"
  /\ \E text \in StringsUpTo(MaxOverlapTextLen) :
       documents = <<Page(1, text, PageType(1))>>
  /\ parent_nodes = <<>>
  /\ child_nodes = <<>>
  /\ docstore = {}
  /\ docstore_file = {}
  /\ table = <<>>
  /\ pg_tx = <<>>
  /\ i = 0
  /\ failed_at = 0
  /\ failure = "none"
  /\ runs = 1
  /\ result = "none"
  /\ done_runs = <<>>
  /\ \E overlap \in 0..(CHUNK_SIZE - 1) : config = [Config EXCEPT !.overlap = overlap]
  /\ orch = NewOrchestrator
  /\ calls = <<>>
  /\ retr = [kind |-> "none"]

NextOverlap == CreateNeedleChunks

SpecOverlap == InitOverlap /\ [][NextOverlap]_vars

\* C19: the text of every chunk is non-empty, begins and ends with a
\* non-whitespace character, and chunk_size is its length; for the chunk of a
\* short paragraph, a chunk closed inside a paragraph and the last chunk of a
\* paragraph alike.
C19_TrimmedText ==
  \A c \in Chunks :
    /\ c.text # <<>>
    /\ ~IsSpace(c.text[1])
    /\ ~IsSpace(c.text[Len(c.text)])
    /\ c.metadata.chunk_size = Len(c.text)

\* A page whose first paragraph is split into a chunk closed inside it and a
\* last chunk, followed by a short paragraph kept whole
C19_Witness ==
  /\ Chunked
  /\ Len(child_nodes) = 3
  /\ child_nodes[1].trace.split /\ child_nodes[2].trace.split
  /\ child_nodes[1].trace.para = child_nodes[2].trace.para
  /\ FollowsClose(child_nodes[2])
  /\ child_nodes[2].trace.closed_text = child_nodes[1].text
  /\ ~child_nodes[3].trace.split

\* The last n characters of s, none when n = 0
LastChars(s, n) ==
  IF n >= Len(s) THEN s ELSE SubSeq(s, Len(s) - n + 1, Len(s))

IsSuffix(p, s) ==
  Len(p) <= Len(s) /\ SubSeq(s, Len(s) - Len(p) + 1, Len(s)) = p

\* C20: for every overlap in 0 .. CHUNK_SIZE - 1 the seed of a chunk started
\* after a close is a suffix of the last overlap characters of the closed
\* buffer: it is at most overlap characters long, and empty at overlap 0.
C20_SeedWithinOverlap ==
  \A c \in Chunks :
    FollowsClose(c) =>
      /\ IsSuffix(c.trace.seed, LastChars(c.trace.closed, config.overlap))
      /\ Len(c.trace.seed) <= config.overlap
      /\ config.overlap = 0 => c.trace.seed = <<>>

\* The same for the overlaps other than 0
C20_SeedWithinPositiveOverlap ==
  config.overlap > 0 => C20_SeedWithinOverlap


\* The buffer of chunk c once the first j of its sentences are in it
RECURSIVE BufferAfter(_, _)
BufferAfter(c, j) ==
  IF j = 0 THEN <<>>
  ELSE IF j = 1
  THEN (IF c.trace.seeded THEN c.trace.seed \o SPACE ELSE <<>>) \o c.trace.sents[1]
  ELSE BufferAfter(c, j - 1) \o SPACE \o c.trace.sents[j]

\* C21: a chunk is closed inside a paragraph only on a non-empty buffer that
\* the next sentence, with its separator, would take beyond CHUNK_SIZE, and
\* every sentence that joined a non-empty buffer fitted under that test.
C21_GreedyClose ==
  \A k \in 1..Len(child_nodes) :
    LET c == child_nodes[k]
    IN  c.trace.split =>
          /\ FollowsClose(c) =>
               /\ k > 1
               /\ c.trace.closed =
                    BufferAfter(child_nodes[k - 1], Len(child_nodes[k - 1].trace.sents))
               /\ Len(c.trace.closed) + 1 + Len(c.trace.sents[1]) > CHUNK_SIZE
          /\ \A j \in 2..Len(c.trace.sents) :
               Len(BufferAfter(c, j - 1)) + 1 + Len(c.trace.sents[j]) <= CHUNK_SIZE
          /\ c.text = Strip(BufferAfter(c, Len(c.trace.sents)))

\* A buffer filled to exactly CHUNK_SIZE by a second sentence, closed by a
\* third one
C21_Witness ==
  \E k \in 2..Len(child_nodes) :
    /\ FollowsClose(child_nodes[k])
    /\ Len(child_nodes[k - 1].trace.sents) = 2
    /\ Len(child_nodes[k].trace.closed) = CHUNK_SIZE


\* The j-th paragraph of the page as the chunker reads it
TrimmedPara(j) == Strip(Paragraphs[j])

\* The paragraphs longer than CHUNK_SIZE that hold no sentence boundary
Unbroken ==
  {j \in 1..Len(Paragraphs) :
     /\ Len(TrimmedPara(j)) > CHUNK_SIZE
     /\ Find(TrimmedPara(j), PERIOD_SPACE) = -1}

\* C22: a paragraph longer than CHUNK_SIZE without a sentence boundary is
\* one chunk, whose text is the whole trimmed paragraph.
C22_UnbrokenKeptWhole ==
  Chunked =>
    \A j \in Unbroken :
      /\ Len(ChunksOfPara(j)) = 1
      /\ ChunksOfPara(j)[1].text = TrimmedPara(j)

\* The same for the paragraphs that hold no '|'
C22_UnbrokenWithoutPipe ==
  Chunked =>
    \A j \in Unbroken :
      Find(TrimmedPara(j), PIPE) = -1 =>
        /\ Len(ChunksOfPara(j)) = 1
        /\ ChunksOfPara(j)[1].text = TrimmedPara(j)

C22_WitnessWithoutPipe ==
  /\ Chunked
  /\ \E j \in Unbroken :
       /\ Find(TrimmedPara(j), PIPE) = -1
       /\ Len(TrimmedPara(j)) > CHUNK_SIZE + 1
       /\ \E k \in 1..Len(TrimmedPara(j)) : TrimmedPara(j)[k] = "."


(***************************************************************************)
(* create_needle_chunks with a chunk size and overlaps wide enough for the *)
(* trailing overlap to hold a sentence boundary behind a space.            *)
(***************************************************************************)
MaxSeedTextLen == 9

SeedChars == {"a", " ", "."}

RECURSIVE SeedTexts(_)
SeedTexts(n) ==
  IF n = 0 THEN {<<>>}
  ELSE LET shorter == SeedTexts(n - 1)
       IN shorter \cup {Append(s, c) : s \in {t \in shorter : Len(t) = n - 1},
                                       c \in SeedChars}

\* CHUNK_SIZE 7 with CHUNK_OVERLAP 5 or 6
SeedConfigs == {[Config EXCEPT !.size = 7, !.overlap = o] : o \in 5..6}

InitSeed ==
  /\ pc = "chunk"
  /\ \E text \in SeedTexts(MaxSeedTextLen) :
       documents = <<Page(1, text, PageType(1))>>
  /\ parent_nodes = <<>>
  /\ child_nodes = <<>>
  /\ docstore = {}
  /\ docstore_file = {}
  /\ table = <<>>
  /\ pg_tx = <<>>
  /\ i = 0
  /\ failed_at = 0
  /\ failure = "none"
  /\ runs = 1
  /\ result = "none"
  /\ done_runs = <<>>
  /\ config \in SeedConfigs
  /\ orch = NewOrchestrator
  /\ calls = <<>>
  /\ retr = [kind |-> "none"]

NextSeed == CreateNeedleChunks

SpecSeed == InitSeed /\ [][NextSeed]_vars

\* The trailing overlap characters of the buffer that chunk c follows
RawOverlap(c) == SliceLast(c.trace.closed, config.overlap)

\* C23: the seed of a chunk holds no '. '; when the trailing overlap of the
\* closed buffer holds sentence boundaries the seed is what follows the last
\* of them.
C23_SeedStartsSentence ==
  \A c \in Chunks :
    c.trace.seeded =>
      /\ Find(c.trace.seed, PERIOD_SPACE) = -1
      /\ RFind(RawOverlap(c), PERIOD_SPACE) # -1 =>
           c.trace.seed =
             SliceFrom(RawOverlap(c), RFind(RawOverlap(c), PERIOD_SPACE) + 2)

\* A trailing overlap that still holds a sentence boundary behind its first
\* space
C23_Witness ==
  \E c \in Chunks :
    /\ c.trace.seeded
    /\ Find(RawOverlap(c), SPACE) # -1
    /\ Find(SliceFrom(RawOverlap(c), Find(RawOverlap(c), SPACE) + 1), PERIOD_SPACE) # -1
    /\ c.trace.seed # <<>>


\* The sentences of the page's text as the sentence loop reads them
SentencesOfPage ==
  LET parts == Split(Replace(documents[1].text, PERIOD_SPACE, PERIOD_PIPE), PIPE)
  IN  SelectSeq([k \in 1..Len(parts) |-> Strip(parts[k])], LAMBDA x : x # <<>>)

\* A page that is one trimmed paragraph of twice CHUNK_SIZE characters, made
\* of sentences of at most CHUNK_SIZE characters
TwiceChunkSizePage ==
  /\ Chunked
  /\ Len(documents) = 1
  /\ Len(documents[1].text) = 2 * CHUNK_SIZE
  /\ Strip(documents[1].text) = documents[1].text
  /\ Find(documents[1].text, PARA_BREAK) = -1
  /\ \A k \in 1..Len(SentencesOfPage) : Len(SentencesOfPage[k]) <= CHUNK_SIZE

\* C24 as stated: such a page yields exactly 2 chunks, whatever the lengths
\* of its sentences.
C24_AlwaysTwoChunks ==
  TwiceChunkSizePage => Len(child_nodes) = 2

\* C24: such a page yields exactly 2 chunks when it is made of two sentences
\* with one character between them.
C24_TwoSentencesTwoChunks ==
  (/\ TwiceChunkSizePage
   /\ Len(SentencesOfPage) = 2
   /\ Len(SentencesOfPage[1]) + 1 + Len(SentencesOfPage[2]) = 2 * CHUNK_SIZE)
  => /\ Len(child_nodes) = 2
     /\ child_nodes[1].text = SentencesOfPage[1]
     /\ FollowsClose(child_nodes[2])

C24_Witness ==
  /\ TwiceChunkSizePage
  /\ Len(SentencesOfPage) = 2
  /\ Len(SentencesOfPage[1]) = CHUNK_SIZE
  /\ Len(SentencesOfPage[1]) + 1 + Len(SentencesOfPage[2]) = 2 * CHUNK_SIZE
  /\ Find(documents[1].text, PERIOD_SPACE) # -1
  /\ Len(child_nodes) = 2
  /\ child_nodes[2].trace.seeded


\* The run is on the secondary write path
OnSecondaryPath == pc \in {"pg_connect", "pg_insert", "pg_index"}

\* C25: the secondary write path is entered only after a transient failure
\* of the primary write; a permanent failure never leads to it.
C25_FallbackOnlyOnTransient ==
  OnSecondaryPath => failure = "transient"


\* The metadata keys that only a chunk carries
ChunkOnlyFields == {"chunk_index", "parent_id", "chunk_id", "chunk_size"}

RowIdsOfPage(n) ==
  {table[k].chunk_id : k \in {j \in 1..Len(table) : table[j].parent_id = PageId(n)}}

\* The chunk ids the run produced for page n
ChunkIdsOfPage(n) ==
  {c.metadata.chunk_id : c \in {x \in Chunks : x.metadata.parent_id = PageId(n)}}

\* C27: when a run has completed, the rows of every page are the chunks the
\* run produced for it, also when an earlier run had written more.
C27_NoStaleRows ==
  (pc = "idle" /\ result = "ok") =>
    \A n \in PageNumbers : RowIdsOfPage(n) = ChunkIdsOfPage(n)

\* The same for the first run on an empty table
C27_FirstRunRows ==
  (pc = "idle" /\ result = "ok" /\ runs = 1) =>
    \A n \in PageNumbers : RowIdsOfPage(n) = ChunkIdsOfPage(n)


\* C28: a step of the secondary write loop changes the table only when it is
\* the commit, which comes after the last chunk and shows a row for every
\* chunk of the run; a failure inside the loop leaves the table as the loop
\* found it and ends the run with the error.
C28_AtomicSecondaryPath ==
  [][pc = "pg_insert" =>
       /\ pc' = "pg_index" =>
            /\ i > Len(child_nodes)
            /\ \A c \in Chunks :
                 \E k \in 1..Len(table') : table'[k] = RowOf(c)
       /\ pc' # "pg_index" => table' = table
       /\ pc' = "idle" => result' = "error"
       /\ pc' \in {"pg_insert", "pg_index", "idle"}]_vars

\* A first run whose secondary loop failed after it had passed a chunk that
\* has no row in the table
C28_Witness ==
  /\ pc = "idle"
  /\ result = "error"
  /\ runs = 1
  /\ failed_at = 1
  /\ i >= 2
  /\ i <= Len(child_nodes)
  /\ \E k \in 1..(i - 1) : RowsFor(child_nodes[k]) = {}


(***************************************************************************)
(* create_indexing_mode (main.py): what it reports for a run.              *)
(* Indexing/create_all_indexes.py, which stands between it and             *)
(* create_needle_index, is not part of the sources at hand: it is taken to *)
(* hand over None for a needle index that was not created.                 *)
(***************************************************************************)
\* What create_all_indexes can hand over for one index
IndexResults == {"None", "index"}

\* create_all_indexes' needle_result for create_needle_index's outcome
NeedleResult(r) == IF r = "aborted" THEN "None" ELSE "index"

\* A test that needs both results to be missing
ModeReportAbortedOnBoth(needle_result, summary_result) ==
  IF needle_result = "None" /\ summary_result = "None" THEN "ABORTED" ELSE "SUCCESS"

\* create_indexing_mode, lines 256-265
ModeReport(needle_result, summary_result) ==
  IF needle_result = "None" \/ summary_result = "None" THEN "ABORTED" ELSE "SUCCESS"

====
